---- MODULE Spec2Model ----
(***************************************************************************)
(* A model of parser/fritzing.py: the Fritzing sketch parser (class        *)
(* Fritzing), the part parser (class ComponentParser) and the coordinate   *)
(* conversions make_x / make_y / make_length / get_x / get_y / get_length. *)
(*                                                                         *)
(* XML text is modelled as sequences of one-character strings wherever the *)
(* code converts it (float(), int(), split()); identifiers that the code   *)
(* only compares or uses as dictionary keys are plain strings.  A Python   *)
(* exception leaving a handler is modelled by the handler's result record  *)
(* having raised = TRUE; the state it had changed before raising is kept.  *)
(***************************************************************************)
EXTENDS Integers, Sequences, FiniteSets, TLC

(***************************************************************************)
(* Bounds of the model.                                                    *)
(***************************************************************************)
MaxInst == 2         \* most instance elements of a sketch
MaxElements == 3     \* most elements of an svg document
MaxTextLen == 4      \* longest numeric attribute text drawn in SpecGeom
MaxPoints == 3       \* most tokens in a points attribute drawn in SpecGeom

SeqUpTo(S, n) == UNION {[1..k -> S] : k \in 0..n}

(***************************************************************************)
(* Python values that reach float() and int(): the integer default of      *)
(* element.get(name, 0), or the text of an attribute.                      *)
(***************************************************************************)
PyInt(k) == [t |-> "int", n |-> k, s |-> <<>>]
PyStr(chars) == [t |-> "str", n |-> 0, s |-> chars]

\* element.get(name, default) on an attribute map (a function whose domain
\* is the set of attributes the element carries).
Get(attrs, name, default) ==
    IF name \in DOMAIN attrs THEN PyStr(attrs[name]) ELSE default

Digits == {"0", "1", "2", "3", "4", "5", "6", "7", "8", "9"}

DigitVal(c) ==
    CASE c = "0" -> 0 [] c = "1" -> 1 [] c = "2" -> 2 [] c = "3" -> 3
      [] c = "4" -> 4 [] c = "5" -> 5 [] c = "6" -> 6 [] c = "7" -> 7
      [] c = "8" -> 8 [] c = "9" -> 9

RECURSIVE NatOf(_)
NatOf(ds) ==
    IF ds = <<>> THEN 0
    ELSE NatOf(SubSeq(ds, 1, Len(ds) - 1)) * 10 + DigitVal(ds[Len(ds)])

RECURSIVE Pow10(_)
Pow10(k) == IF k = 0 THEN 1 ELSE 10 * Pow10(k - 1)

\* Python's float(str) on a decimal literal: optional sign, digits with at
\* most one point, at least one digit.  Anything else raises ValueError.
\* The value is the exact rational num / den.  (Whitespace padding,
\* exponents, "inf" and "nan" lie outside the alphabets drawn here.)
IsSigned(chars) == chars # <<>> /\ Head(chars) \in {"-", "+"}

IsNegative(chars) == chars # <<>> /\ Head(chars) = "-"

Unsigned(chars) == IF IsSigned(chars) THEN Tail(chars) ELSE chars

ValidDecimal(body) ==
    /\ \A i \in 1..Len(body) : body[i] \in Digits \cup {"."}
    /\ Cardinality({i \in 1..Len(body) : body[i] = "."}) <= 1
    /\ Cardinality({i \in 1..Len(body) : body[i] \in Digits}) >= 1

\* The place of the point, or one past the end when there is none.
DotAt(body) ==
    IF \E i \in 1..Len(body) : body[i] = "."
    THEN CHOOSE i \in 1..Len(body) : body[i] = "."
    ELSE Len(body) + 1

FloatAt(negative, whole, frac) ==
    [raised |-> FALSE,
     num |-> IF negative
             THEN 0 - (NatOf(whole) * Pow10(Len(frac)) + NatOf(frac))
             ELSE NatOf(whole) * Pow10(Len(frac)) + NatOf(frac),
     den |-> Pow10(Len(frac))]

\* float() giving 0.0 for a text that is no number.
FloatOfBody_lenient(negative, body, dot) ==
    IF ValidDecimal(body)
    THEN FloatAt(negative, SubSeq(body, 1, dot - 1),
                 SubSeq(body, dot + 1, Len(body)))
    ELSE [raised |-> FALSE, num |-> 0, den |-> 1]

FloatOfBody(negative, body, dot) ==
    IF ValidDecimal(body)
    THEN FloatAt(negative, SubSeq(body, 1, dot - 1),
                 SubSeq(body, dot + 1, Len(body)))
    ELSE [raised |-> TRUE, num |-> 0, den |-> 1]

FloatOfStr(chars) ==
    FloatOfBody(IsNegative(chars), Unsigned(chars), DotAt(Unsigned(chars)))

\* float(v) for v an int or a str.
Float(v) ==
    IF v.t = "int" THEN [raised |-> FALSE, num |-> v.n, den |-> 1]
    ELSE FloatOfStr(v.s)

\* round(): Python 2 rounds halves away from zero.
RoundHalfAway(num, den) ==
    IF num >= 0 THEN (2 * num + den) \div (2 * den)
    ELSE 0 - ((2 * (0 - num) + den) \div (2 * den))

\* int(round(f)) of a float() result, the exception passed on.
IntRound(f) ==
    IF f.raised THEN [raised |-> TRUE, value |-> 0]
    ELSE [raised |-> FALSE, value |-> RoundHalfAway(f.num, f.den)]

\* -v of a result, the exception passed on.
Negated(r) == [raised |-> r.raised, value |-> 0 - r.value]

make_x(x) == IntRound(Float(x))

make_y(y) == Negated(IntRound(Float(y)))

make_length(v) == IntRound(Float(v))

get_x(attrs, name) == make_x(Get(attrs, name, PyInt(0)))

get_y(attrs, name) == make_y(Get(attrs, name, PyInt(0)))

get_length(attrs, name) == make_length(Get(attrs, name, PyInt(0)))

(***************************************************************************)
(* str.split() and str.split(',').                                         *)
(***************************************************************************)
\* s.split(): the maximal runs of non-blank characters, in order.
RECURSIVE SplitBlank(_, _, _)
SplitBlank(s, cur, acc) ==
    IF s = <<>> THEN (IF cur = <<>> THEN acc ELSE Append(acc, cur))
    ELSE IF Head(s) = " "
         THEN SplitBlank(Tail(s), <<>>,
                         IF cur = <<>> THEN acc ELSE Append(acc, cur))
         ELSE SplitBlank(Tail(s), Append(cur, Head(s)), acc)

\* s.split(','): the pieces between commas, empty pieces included.
RECURSIVE SplitComma(_, _, _)
SplitComma(s, cur, acc) ==
    IF s = <<>> THEN Append(acc, cur)
    ELSE IF Head(s) = ","
         THEN SplitComma(Tail(s), <<>>, Append(acc, cur))
         ELSE SplitComma(Tail(s), Append(cur, Head(s)), acc)

\* The loop body shared by parse_polygon and parse_polyline:
\*     x, y = point.split(',');  make_x(x), make_y(y)
\* Unpacking raises ValueError unless there are exactly two pieces.
PointFrom(px, py) ==
    IF px.raised \/ py.raised THEN [raised |-> TRUE, value |-> <<0, 0>>]
    ELSE [raised |-> FALSE, value |-> <<px.value, py.value>>]

PointOfParts(parts) ==
    IF Len(parts) # 2 THEN [raised |-> TRUE, value |-> <<0, 0>>]
    ELSE PointFrom(make_x(PyStr(parts[1])), make_y(PyStr(parts[2])))

PointOf(token) == PointOfParts(SplitComma(token, <<>>, <<>>))

\* poly.get('points', '').split()
PointTokens(attrs) ==
    SplitBlank(IF "points" \in DOMAIN attrs THEN attrs["points"] ELSE <<>>,
               <<>>, <<>>)

\* The point loop of parse_polygon: the points added to the shape.
RECURSIVE PolygonPoints(_, _)
PolygonNext(tokens, acc, p) ==
    IF p.raised THEN [raised |-> TRUE, value |-> acc]
    ELSE PolygonPoints(Tail(tokens), Append(acc, p.value))

PolygonPoints(tokens, acc) ==
    IF tokens = <<>> THEN [raised |-> FALSE, value |-> acc]
    ELSE IF Head(tokens) = <<>> THEN PolygonPoints(Tail(tokens), acc)
    ELSE PolygonNext(tokens, acc, PointOf(Head(tokens)))

\* "if shape.points: shape.add_point(first point)"
ClosedPolygon(r) ==
    IF r.raised THEN [raised |-> TRUE, shapes |-> <<>>]
    ELSE [raised |-> FALSE,
          shapes |-> << [type |-> "polygon",
                         points |-> IF r.value # <<>>
                                    THEN Append(r.value, r.value[1])
                                    ELSE r.value] >>]

\* parse_polygon: one Polygon, closed by repeating its first point.
parse_polygon(attrs) == ClosedPolygon(PolygonPoints(PointTokens(attrs), <<>>))

\* The point loop of parse_polyline; last is <<>> for None.
RECURSIVE PolylineLines(_, _, _)
PolylineNext(tokens, last, acc, p) ==
    IF p.raised THEN [raised |-> TRUE, shapes |-> <<>>]
    ELSE PolylineLines(Tail(tokens), <<p.value>>,
                       IF last # <<>>
                       THEN Append(acc, [type |-> "line", p1 |-> last[1],
                                         p2 |-> p.value])
                       ELSE acc)

PolylineLines(tokens, last, acc) ==
    IF tokens = <<>> THEN [raised |-> FALSE, shapes |-> acc]
    ELSE IF Head(tokens) = <<>> THEN PolylineLines(Tail(tokens), last, acc)
    ELSE PolylineNext(tokens, last, acc, PointOf(Head(tokens)))

\* parse_polyline: one Line per consecutive pair of points.
parse_polyline(attrs) == PolylineLines(PointTokens(attrs), <<>>, <<>>)

(***************************************************************************)
(* ComponentParser: terminals, shapes and pins of one part.                *)
(*                                                                         *)
(* An svg element is [tag, id, attrs]; id is None when the element has no  *)
(* id attribute.  None stands for Python's None: a value that is no        *)
(* attribute text.                                                         *)
(***************************************************************************)
None == "<None>"

EmptyDict == [k \in {} |-> None]

\* d[k] = v on a dictionary.
Put(d, k, v) == [x \in DOMAIN d \cup {k} |-> IF x = k THEN v ELSE d[x]]

DigitStr(d) ==
    CASE d = 0 -> "0" [] d = 1 -> "1" [] d = 2 -> "2" [] d = 3 -> "3"
      [] d = 4 -> "4" [] d = 5 -> "5" [] d = 6 -> "6" [] d = 7 -> "7"
      [] d = 8 -> "8" [] d = 9 -> "9"

\* str(n) for n >= 0.
RECURSIVE ToStr(_)
ToStr(n) == IF n < 10 THEN DigitStr(n) ELSE ToStr(n \div 10) \o DigitStr(n % 10)

\* get_next_pin_number counting from one: the counter is advanced before
\* it is read.
get_next_pin_number_from_one(next_pin_number) ==
    [number |-> ToStr(next_pin_number + 1), next_pin_number |-> next_pin_number + 1]

\* get_next_pin_number: the number handed out and the counter after it.
get_next_pin_number(next_pin_number) ==
    [number |-> ToStr(next_pin_number), next_pin_number |-> next_pin_number + 1]

\* The key parse_terminals files a connector under: the terminalId of its
\* views/schematicView/p element, else its svgId, None without either.  A
\* connector declaration is [id, plug], plug being the sequence of its p
\* elements (find() takes the first), each [terminalId, svgId].
TerminalKey(conn) ==
    IF conn.plug = <<>> THEN None
    ELSE IF conn.plug[1].terminalId # None THEN conn.plug[1].terminalId
    ELSE conn.plug[1].svgId

\* parse_terminals: svg id -> connector id.
RECURSIVE parse_terminals(_, _)
parse_terminals(conns, found) ==
    IF conns = <<>> THEN found
    ELSE parse_terminals(Tail(conns),
             IF TerminalKey(Head(conns)) # None
             THEN Put(found, TerminalKey(Head(conns)), Head(conns).id)
             ELSE found)

RectangleOf(x, y, width, height) ==
    IF x.raised \/ y.raised \/ width.raised \/ height.raised
    THEN [raised |-> TRUE, shapes |-> <<>>]
    ELSE [raised |-> FALSE,
          shapes |-> << [type |-> "rectangle", x |-> x.value,
                         y |-> y.value - height.value,
                         width |-> width.value, height |-> height.value] >>]

parse_rect(attrs) ==
    RectangleOf(get_x(attrs, "x"), get_y(attrs, "y"),
                get_length(attrs, "width"), get_length(attrs, "height"))

LineOf(x1, y1, x2, y2) ==
    IF x1.raised \/ y1.raised \/ x2.raised \/ y2.raised
    THEN [raised |-> TRUE, shapes |-> <<>>]
    ELSE [raised |-> FALSE,
          shapes |-> << [type |-> "line", p1 |-> <<x1.value, y1.value>>,
                         p2 |-> <<x2.value, y2.value>>] >>]

parse_line(attrs) ==
    LineOf(get_x(attrs, "x1"), get_y(attrs, "y1"),
           get_x(attrs, "x2"), get_y(attrs, "y2"))

CircleOf(cx, cy, r) ==
    IF cx.raised \/ cy.raised \/ r.raised
    THEN [raised |-> TRUE, shapes |-> <<>>]
    ELSE [raised |-> FALSE,
          shapes |-> << [type |-> "circle", x |-> cx.value, y |-> cy.value,
                         radius |-> r.value] >>]

parse_circle(attrs) ==
    CircleOf(get_x(attrs, "cx"), get_y(attrs, "cy"), get_length(attrs, "r"))

\* The tag dispatch of parse_svg.
ElementShapes(element) ==
    CASE element.tag = "circle" -> parse_circle(element.attrs)
      [] element.tag = "rect" -> parse_rect(element.attrs)
      [] element.tag = "line" -> parse_line(element.attrs)
      [] element.tag = "polygon" -> parse_polygon(element.attrs)
      [] element.tag = "polyline" -> parse_polyline(element.attrs)
      [] OTHER -> [raised |-> FALSE, shapes |-> <<>>]

\* Pin(self.get_next_pin_number(), (x, y), (x, y))
PinAt(n, x, y) ==
    [pins |-> << [pin_number |-> n.number, p1 |-> <<x, y>>, p2 |-> <<x, y>>] >>,
     next_pin_number |-> n.next_pin_number]

\* get_pin: the pins (none or one) a shape of an element yields, and the
\* counter afterwards.  The division is Python 2's floor division of ints.
get_pin(terms, next, shape, element) ==
    IF element.id \notin DOMAIN terms
    THEN [pins |-> <<>>, next_pin_number |-> next]
    ELSE IF shape.type = "rectangle"
    THEN PinAt(get_next_pin_number(next), shape.x + (shape.width \div 2),
               shape.y + (shape.height \div 2))
    ELSE IF shape.type = "circle"
    THEN PinAt(get_next_pin_number(next), shape.x, shape.y)
    ELSE [pins |-> <<>>, next_pin_number |-> next]

\* add_shape(shape) and, if get_pin gave one, add_pin(pin), on the parser
\* state st = [shapes, pins, next_pin_number].
Added(st, shape, p) ==
    [shapes |-> Append(st.shapes, shape), pins |-> st.pins \o p.pins,
     next_pin_number |-> p.next_pin_number]

\* "for shape in shapes: ..." of parse_svg.
RECURSIVE AddShapes(_, _, _, _)
AddShapes(terms, st, new, element) ==
    IF new = <<>> THEN st
    ELSE AddShapes(terms,
                   Added(st, Head(new),
                         get_pin(terms, st.next_pin_number, Head(new), element)),
                   Tail(new), element)

AfterElement(terms, st, element, r) ==
    IF r.raised THEN [raised |-> TRUE, st |-> st]
    ELSE [raised |-> FALSE, st |-> AddShapes(terms, st, r.shapes, element)]

\* One iteration of the element loop of parse_svg.
SvgStep(terms, st, element) ==
    AfterElement(terms, st, element, ElementShapes(element))

\* The element loop of parse_svg.
RECURSIVE SvgLoop(_, _, _)
SvgNext(terms, elements, r) ==
    IF r.raised THEN r ELSE SvgLoop(terms, r.st, Tail(elements))

SvgLoop(terms, st, elements) ==
    IF elements = <<>> THEN [raised |-> FALSE, st |-> st]
    ELSE SvgNext(terms, elements, SvgStep(terms, st, Head(elements)))

EmptyBody == [shapes |-> <<>>, pins |-> <<>>, next_pin_number |-> 0]

\* parse_svg on a part description: nothing is read when the part names no
\* image or the derived svg path does not exist (part.svg = <<>>); an svg
\* file that is no XML makes ElementTree raise.
parse_svg(terms, part) ==
    IF part.image = None \/ part.svg = <<>>
    THEN [raised |-> FALSE, st |-> EmptyBody]
    ELSE IF ~part.svg[1].readable THEN [raised |-> TRUE, st |-> EmptyBody]
    ELSE SvgLoop(terms, EmptyBody, part.svg[1].elements)

ComponentOf(idref, part, body) ==
    [raised |-> body.raised,
     component |-> [name |-> idref, prefix |-> part.label[1],
                    shapes |-> body.st.shapes, pins |-> body.st.pins]]

\* ComponentParser(idref, path).parse() on the part description stored at
\* path: ElementTree raises on a file that is no XML, tree.find('label')
\* is None (and .text raises) when the part has no label.
ComponentParser_parse(idref, part) ==
    IF ~part.readable \/ part.label = <<>>
    THEN [raised |-> TRUE, component |-> [name |-> idref]]
    ELSE ComponentOf(idref, part,
                     parse_svg(parse_terminals(part.connectors, EmptyDict), part))

(***************************************************************************)
(* Fritzing: the sketch parser.                                            *)
(*                                                                         *)
(* An instance element is                                                  *)
(*   [moduleIdRef, modelIndex, path, title, views]                         *)
(* with path = "" when the attribute is absent or empty (both are falsy),  *)
(* title the sequence of its title children's texts and views the sequence *)
(* of its views/schematicView elements (find() takes the first), each      *)
(*   [layer, geometry |-> [attrs, transform], connectors]                  *)
(* where transform is the sequence of the geometry's transform children    *)
(* (attribute maps) and a connector is [connectorId, connects], connects   *)
(* being a sequence of [modelIndex, connectorId, layer].  Every instance   *)
(* carries a modelIndex, every connector a connectorId and every view a    *)
(* geometry.                                                               *)
(***************************************************************************)
\* The files of the part library as the session finds them: exists(path)
\* and the part description stored at a path.
ExistingFiles == {"a.fzp", "bad.fzp"}

Exists(path) == path \in ExistingFiles

\* a.fzp: a resistor-like part with two terminals, one found through its
\* svgId, one through its terminalId, and a drawing of a pad, a line and a
\* second pad.
PartA ==
    [readable |-> TRUE,
     label |-> <<"R">>,
     connectors |->
        << [id |-> "connector0",
            plug |-> << [terminalId |-> None, svgId |-> "pin0"] >>],
           [id |-> "connector1",
            plug |-> << [terminalId |-> "pin1T", svgId |-> "pin1"] >>] >>,
     image |-> "r.svg",
     svg |-> << [readable |-> TRUE,
                 elements |->
                    << [tag |-> "rect", id |-> "pin0",
                        attrs |-> ("x" :> <<"1">>) @@ ("y" :> <<"2">>)
                                  @@ ("width" :> <<"4">>)
                                  @@ ("height" :> <<"2">>)],
                       [tag |-> "line", id |-> None,
                        attrs |-> ("x1" :> <<"5">>) @@ ("x2" :> <<"9">>)],
                       [tag |-> "circle", id |-> "pin1T",
                        attrs |-> ("cx" :> <<"9">>) @@ ("r" :> <<"1">>)] >>] >>]

\* Any other file: one that is no XML.
PartBad ==
    [readable |-> FALSE, label |-> <<>>, connectors |-> <<>>,
     image |-> None, svg |-> <<>>]

PartAt(path) == IF path = "a.fzp" THEN PartA ELSE PartBad

\* What lookup_part(path, version) of library.fritzing may return for a
\* path that does not exist: nothing ("" for None), the path of a file of
\* the library, or a path where no file is.
LookupResults == {"", "a.fzp", "lib/none.fzp"}

\* lookup_part is called only for a path that is given and does not exist.
LookupOutcomes(inst) ==
    IF inst.path = "" \/ Exists(inst.path) THEN {""} ELSE LookupResults

\* The list comprehension of add_connects with the breadboard test left out.
RECURSIVE ConnectTuples_unfiltered(_)
ConnectTuples_unfiltered(cs) ==
    IF cs = <<>> THEN <<>>
    ELSE << <<Head(cs).modelIndex, Head(cs).connectorId>> >>
         \o ConnectTuples_unfiltered(Tail(cs))

\* The connects a connector contributes: its connect references outside
\* the breadboard layer, as (modelIndex, connectorId), in document order.
RECURSIVE ConnectTuples(_)
ConnectTuples(cs) ==
    IF cs = <<>> THEN <<>>
    ELSE IF Head(cs).layer # "breadboardbreadboard"
         THEN << <<Head(cs).modelIndex, Head(cs).connectorId>> >>
              \o ConnectTuples(Tail(cs))
         ELSE ConnectTuples(Tail(cs))

\* "if connects: connects.insert(0, ...); self.connects.append(connects)"
WithRecord(connects, index, connector, found) ==
    IF found # <<>>
    THEN Append(connects, << <<index, connector.connectorId>> >> \o found)
    ELSE connects

\* add_connects: self.connects after walking the connectors of a view.
RECURSIVE add_connects(_, _, _)
add_connects(connects, index, connectors) ==
    IF connectors = <<>> THEN connects
    ELSE add_connects(WithRecord(connects, index, Head(connectors),
                                 ConnectTuples(Head(connectors).connects)),
                      index, Tail(connectors))

NetPoint(index, cid, x, y) ==
    [point_id |-> index \o "." \o cid, x |-> x, y |-> y]

\* The coordinate names of the i-th connector (counted from 0) of a wire.
CoordNames(i) == IF i = 0 THEN <<"x", "y">> ELSE <<"x2", "y2">>

\* The connector loop of parse_wire: self.points[index] after connectors
\* i, i+1, ... (i counts from 0), or the exception get_x / get_y raised,
\* with the NetPoints stored before it.
RECURSIVE WirePoints(_, _, _, _, _)
WirePoint(index, geom, connectors, i, pts, x, y) ==
    IF x.raised \/ y.raised THEN [raised |-> TRUE, pts |-> pts]
    ELSE WirePoints(index, geom, Tail(connectors), i + 1,
                    Put(pts, Head(connectors).connectorId,
                        NetPoint(index, Head(connectors).connectorId,
                                 x.value, y.value)))

WirePoints(index, geom, connectors, i, pts) ==
    IF connectors = <<>> THEN [raised |-> FALSE, pts |-> pts]
    ELSE WirePoint(index, geom, connectors, i, pts,
                   get_x(geom.attrs, CoordNames(i)[1]),
                   get_y(geom.attrs, CoordNames(i)[2]))

\* parse_wire after its connector loop: self.points[index] is stored
\* before the loop and filled by it; add_connects runs if nothing raised.
WireParsed(self, index, view, r) ==
    IF r.raised
    THEN [raised |-> TRUE,
          self |-> [self EXCEPT !.points = Put(@, index, r.pts)]]
    ELSE [raised |-> FALSE,
          self |-> [self EXCEPT
                       !.points = Put(@, index, r.pts),
                       !.connects = add_connects(@, index, view.connectors)]]

\* parse_wire on the session state
\*   self = [points, component_instances, connects, components, parsed].
parse_wire(self, inst) ==
    IF inst.views = <<>> THEN [raised |-> FALSE, self |-> self]
    ELSE WireParsed(self, inst.modelIndex, inst.views[1],
                    WirePoints(inst.modelIndex, inst.views[1].geometry,
                               inst.views[1].connectors, 0, EmptyDict))

\* "self.components[idref] = ComponentParser(idref, path).parse()": parsed
\* records the call, r is what it returned or that it raised.
Loaded(self, idref, path, r) ==
    IF r.raised
    THEN [raised |-> TRUE, found |-> FALSE,
          self |-> [self EXCEPT !.parsed =
                       Append(@, [idref |-> idref, path |-> path])]]
    ELSE [raised |-> FALSE, found |-> TRUE,
          self |-> [self EXCEPT
                       !.parsed = Append(@, [idref |-> idref, path |-> path]),
                       !.components = Put(@, idref, r.component)]]

\* The end of ensure_component with "not exists(path)" left out: whatever
\* lookup_part names is handed to ComponentParser.
LoadComponent_unchecked(self, idref, path) ==
    IF path = ""
    THEN [raised |-> FALSE, found |-> FALSE, self |-> self]
    ELSE Loaded(self, idref, path, ComponentParser_parse(idref, PartAt(path)))

\* The end of ensure_component: path is the path of the instance, or what
\* lookup_part made of it.
LoadComponent(self, idref, path) ==
    IF path = "" \/ ~Exists(path)
    THEN [raised |-> FALSE, found |-> FALSE, self |-> self]
    ELSE Loaded(self, idref, path, ComponentParser_parse(idref, PartAt(path)))

\* ensure_component with "if idref in self.components" left out: the part
\* is parsed for every instance.
ensure_component_uncached(self, inst, lookup) ==
    IF inst.path = ""
    THEN [raised |-> FALSE, found |-> FALSE, self |-> self]
    ELSE LoadComponent(self, inst.moduleIdRef,
                       IF Exists(inst.path) THEN inst.path ELSE lookup)

\* ensure_component: found tells whether a Component is returned; lookup
\* is what lookup_part returns if it is called.
ensure_component(self, inst, lookup) ==
    IF inst.moduleIdRef \in DOMAIN self.components
    THEN [raised |-> FALSE, found |-> TRUE, self |-> self]
    ELSE IF inst.path = ""
    THEN [raised |-> FALSE, found |-> FALSE, self |-> self]
    ELSE LoadComponent(self, inst.moduleIdRef,
                       IF Exists(inst.path) THEN inst.path ELSE lookup)

\* int(str): optional sign and at least one digit, nothing else; any other
\* text raises ValueError.
IntOfStr(chars) ==
    IF Unsigned(chars) # <<>>
       /\ \A i \in 1..Len(Unsigned(chars)) : Unsigned(chars)[i] \in Digits
    THEN [raised |-> FALSE,
          value |-> IF IsNegative(chars) THEN 0 - NatOf(Unsigned(chars))
                    ELSE NatOf(Unsigned(chars))]
    ELSE [raised |-> TRUE, value |-> 0]

\* int(v) for v an int or a str.
IntOf(v) ==
    IF v.t = "int" THEN [raised |-> FALSE, value |-> v.n] ELSE IntOfStr(v.s)

\* Rotations are multiples of pi, kept as exact fractions num / den.
Frac(n, d) == [num |-> n, den |-> d]

\* The table with the entries of the quarter turn and of the three-quarter
\* turn exchanged.
MATRIX2ROTATION_swapped(m) ==
    CASE m = <<1, 0, 0, 1>> -> Frac(0, 1)
      [] m = <<0, 1, -1, 0>> -> Frac(3, 2)
      [] m = <<-1, 0, 0, -1>> -> Frac(1, 1)
      [] m = <<0, -1, 1, 0>> -> Frac(1, 2)
      [] OTHER -> Frac(0, 1)

\* MATRIX2ROTATION.get(m, 0.0)
MATRIX2ROTATION(m) ==
    CASE m = <<1, 0, 0, 1>> -> Frac(0, 1)
      [] m = <<0, 1, -1, 0>> -> Frac(1, 2)
      [] m = <<-1, 0, 0, -1>> -> Frac(1, 1)
      [] m = <<0, -1, 1, 0>> -> Frac(3, 2)
      [] OTHER -> Frac(0, 1)

Decoded(m11, m12, m21, m22) ==
    IF m11.raised \/ m12.raised \/ m21.raised \/ m22.raised
    THEN [raised |-> TRUE, value |-> Frac(0, 1)]
    ELSE [raised |-> FALSE,
          value |-> MATRIX2ROTATION(<<m11.value, m12.value,
                                      m21.value, m22.value>>)]

\* The rotation of a geometry element: 0.0 without a transform child,
\* else the table entry of the four coefficients, each int(xform.get(key, 0)).
Rotation(geom) ==
    IF geom.transform = <<>> THEN [raised |-> FALSE, value |-> Frac(0, 1)]
    ELSE Decoded(IntOf(Get(geom.transform[1], "m11", PyInt(0))),
                 IntOf(Get(geom.transform[1], "m12", PyInt(0))),
                 IntOf(Get(geom.transform[1], "m21", PyInt(0))),
                 IntOf(Get(geom.transform[1], "m22", PyInt(0))))

ComponentInstance(inst, x, y, rotation) ==
    [instance_id |-> inst.title[1], library_id |-> inst.moduleIdRef,
     symbol_index |-> 0,
     symbol_attributes |-> << [x |-> x, y |-> y, rotation |-> rotation] >>]

\* parse_component_instance after ensure_component, with "if cpt is None:
\* return" left out.
Placed_unguarded(inst, view, e, rotation, x, y) ==
    IF e.raised THEN [raised |-> TRUE, self |-> e.self]
    ELSE IF inst.title = <<>> \/ rotation.raised \/ x.raised \/ y.raised
    THEN [raised |-> TRUE, self |-> e.self]
    ELSE [raised |-> FALSE,
          self |-> [e.self EXCEPT
              !.component_instances =
                  Put(@, inst.modelIndex,
                      ComponentInstance(inst, x.value, y.value, rotation.value)),
              !.connects = add_connects(@, inst.modelIndex, view.connectors)]]

\* parse_component_instance after ensure_component returned e: nothing is
\* recorded without a Component; inst.find('title') is None and .text
\* raises without a title; int() and float() may raise.
Placed(inst, view, e, rotation, x, y) ==
    IF e.raised THEN [raised |-> TRUE, self |-> e.self]
    ELSE IF ~e.found THEN [raised |-> FALSE, self |-> e.self]
    ELSE IF inst.title = <<>> \/ rotation.raised \/ x.raised \/ y.raised
    THEN [raised |-> TRUE, self |-> e.self]
    ELSE [raised |-> FALSE,
          self |-> [e.self EXCEPT
              !.component_instances =
                  Put(@, inst.modelIndex,
                      ComponentInstance(inst, x.value, y.value, rotation.value)),
              !.connects = add_connects(@, inst.modelIndex, view.connectors)]]

\* parse_component_instance on the session state.
parse_component_instance(self, inst, lookup) ==
    IF inst.views = <<>> THEN [raised |-> FALSE, self |-> self]
    ELSE IF inst.views[1].layer = "breadboardbreadboard"
    THEN [raised |-> FALSE, self |-> self]
    ELSE Placed(inst, inst.views[1], ensure_component(self, inst, lookup),
                Rotation(inst.views[1].geometry),
                get_x(inst.views[1].geometry.attrs, "x"),
                get_y(inst.views[1].geometry.attrs, "y"))

\* build_nets
build_nets(self) == <<>>

(***************************************************************************)
(* State.                                                                  *)
(***************************************************************************)
VARIABLES
    \* one Fritzing object parsing one sketch
    element,              \* the instance element being parsed, or <<>>
    pos,                  \* instance elements parsed so far
    pc,                   \* "parsing", "done", or "failed" (parse raised)
    points,               \* self.points: index -> connectorid -> NetPoint
    component_instances,  \* self.component_instances: index -> instance
    connects,             \* self.connects: [[(index, connectorid)]]
    components,           \* self.components: idref -> Component
    parsed,               \* the ComponentParser(idref, path).parse() calls
    lookup_result,        \* what lookup_part would return to the handler
                          \* of element ("" for None, or when not asked)
    design,               \* self.design, filled when the walk is over
    \* one ComponentParser parsing one part
    cp_pc,                \* "new", "svg" (in the element loop), "done", "failed"
    terminals,            \* self.terminals: svg id -> connector id
    svg_element,          \* the svg element being parsed, or <<>>
    cp_count,             \* svg elements parsed so far
    shapes,               \* the shapes of self.body
    pins,                 \* the pins of self.body
    next_pin_number,      \* self.next_pin_number
    \* one call of a conversion function
    g_fn,                 \* the function called, or "none"
    g_attrs,              \* the attributes of the element it is called on
    g_out                 \* what it returned, or that it raised

sessionVars == <<element, pos, pc, points, component_instances, connects,
                 components, parsed, lookup_result, design>>

cpVars == <<cp_pc, terminals, svg_element, cp_count, shapes, pins,
            next_pin_number>>

geomVars == <<g_fn, g_attrs, g_out>>

vars == <<sessionVars, cpVars, geomVars>>

Self ==
    [points |-> points, component_instances |-> component_instances,
     connects |-> connects, components |-> components, parsed |-> parsed]

\* Fritzing.__init__
SessionInit ==
    /\ element = <<>>
    /\ pos = 0
    /\ pc = "parsing"
    /\ points = EmptyDict
    /\ component_instances = EmptyDict
    /\ connects = <<>>
    /\ components = EmptyDict
    /\ parsed = <<>>
    /\ lookup_result = ""
    /\ design = [components |-> EmptyDict, component_instances |-> <<>>,
                 nets |-> <<>>]

\* One iteration of the loop of parse over instances/instance: r is what
\* the handler of inst made of the session state.
Step(inst, r, lookup) ==
    /\ pc = "parsing"
    /\ pos < MaxInst
    /\ element' = <<inst>>
    /\ pos' = pos + 1
    /\ pc' = IF r.raised THEN "failed" ELSE "parsing"
    /\ points' = r.self.points
    /\ component_instances' = r.self.component_instances
    /\ connects' = r.self.connects
    /\ components' = r.self.components
    /\ parsed' = r.self.parsed
    /\ lookup_result' = lookup
    /\ UNCHANGED <<design, cpVars, geomVars>>

\* parse_instance on a wire.
ParseWire(inst) ==
    /\ inst.moduleIdRef = "WireModuleID"
    /\ Step(inst, parse_wire(Self, inst), "")

\* parse_instance on anything else.
ParseComponentInstance(inst) ==
    /\ inst.moduleIdRef # "WireModuleID"
    /\ \E lookup \in LookupOutcomes(inst) :
          Step(inst, parse_component_instance(Self, inst, lookup), lookup)

Orders(S) == {o \in [1..Cardinality(S) -> S] : \A k \in S : \E i \in DOMAIN o : o[i] = k}

\* The end of parse: the components, the component instances (in the
\* order the dictionary yields them) and the nets go to the design.
Finish ==
    /\ pc = "parsing"
    /\ pc' = "done"
    /\ \E o \in Orders(DOMAIN component_instances) :
          design' = [components |-> components,
                     component_instances |->
                        [i \in DOMAIN o |-> component_instances[o[i]]],
                     nets |-> build_nets(Self)]
    /\ UNCHANGED <<element, pos, points, component_instances, connects,
                   components, parsed, lookup_result, cpVars, geomVars>>

(***************************************************************************)
(* Sketches.                                                               *)
(***************************************************************************)
Indices == {"1", "2"}

RefA == [modelIndex |-> "2", connectorId |-> "connector0",
         layer |-> "schematicTrace"]

RefB == [modelIndex |-> "1", connectorId |-> "connector1", layer |-> None]

RefBB == [modelIndex |-> "2", connectorId |-> "connector1",
          layer |-> "breadboardbreadboard"]

Connector(cid, cs) == [connectorId |-> cid, connects |-> cs]

\* A geometry with all four coordinates and no transform.
Geom0 ==
    [attrs |-> ("x" :> <<"2">>) @@ ("y" :> <<"5">>) @@ ("x2" :> <<"7">>)
               @@ ("y2" :> <<"-", "3", ".", "5">>),
     transform |-> <<>>]

View(layer, geom, cs) ==
    [layer |-> layer, geometry |-> geom, connectors |-> cs]

Wire(index, views) ==
    [moduleIdRef |-> "WireModuleID", modelIndex |-> index, path |-> "",
     title |-> <<>>, views |-> views]

Part(idref, index, path, title, views) ==
    [moduleIdRef |-> idref, modelIndex |-> index, path |-> path,
     title |-> title, views |-> views]

OneConnector == << Connector("connector0", <<RefA>>) >>

TwoConnectors ==
    << Connector("connector0", <<RefB>>),
       Connector("connector1", <<RefA, RefBB>>) >>

\* The sketches of Spec: wires with and without a schematic view, and
\* parts of two types whose path is absent, names a part file, names no
\* file, or names a file that is no part description, placed in the
\* schematic; a part without a view, one on the breadboard only and one
\* without a title.
Instances ==
    {Wire(i, v) : i \in Indices,
                  v \in {<<>>, <<View("schematicTrace", Geom0, TwoConnectors)>>}}
    \cup
    {Part(t, i, p, <<"R1">>, <<View("schematic", Geom0, OneConnector)>>) :
        t \in {"R", "C"}, i \in Indices,
        p \in {"", "a.fzp", "gone.fzp", "bad.fzp"}}
    \cup
    {Part("R", "1", "a.fzp", <<"R1">>, v) :
        v \in {<<>>, <<View("breadboardbreadboard", Geom0, OneConnector)>>}}
    \cup
    {Part("C", "2", "a.fzp", <<>>, <<View("schematic", Geom0, <<>>)>>)}

\* The sketches of SpecConnects: wires and parts whose connectors carry
\* none, one or two connect references, in and outside the breadboard
\* layer; a part that is skipped although its connector has connects.
Refs == {RefA, RefB, RefBB}

ConnectLists ==
    {<<>>} \cup {<<a>> : a \in Refs} \cup {<<a, b>> : a \in Refs, b \in Refs}

ConnectorPairs ==
    {<< Connector("connector0", l1), Connector("connector1", l2) >> :
        l1 \in {<<>>, <<RefA>>, <<RefBB>>},
        l2 \in {<<>>, <<RefB>>, <<RefBB, RefB>>}}

ConnectInstances ==
    {Wire(i, <<View("schematicTrace", Geom0, cs)>>) :
        i \in Indices,
        cs \in {<< Connector("connector0", l) >> : l \in ConnectLists}
               \cup ConnectorPairs}
    \cup
    {Wire("1", <<>>)}
    \cup
    {Part("R", "1", "a.fzp", <<"R1">>, <<View("schematic", Geom0, cs)>>) :
        cs \in ConnectorPairs}
    \cup
    {Part("C", "2", "gone.fzp", <<"C1">>,
          <<View("schematic", Geom0, OneConnector)>>),
     Part("R", "2", "a.fzp", <<"R2">>,
          <<View("breadboardbreadboard", Geom0, OneConnector)>>)}

\* The sketches of SpecWire: wires whose view has no, one, two or three
\* connectors, with the same or different ids, and whose geometry has all
\* coordinates, none, or one that is no number.
GeomNone == [attrs |-> EmptyDict, transform |-> <<>>]

GeomBadX == [Geom0 EXCEPT !.attrs = ("x" :> <<"a">>) @@ @]

GeomBadX2 == [Geom0 EXCEPT !.attrs = ("x2" :> <<"a">>) @@ @]

WireConnectorIds ==
    { <<>>, <<"connector0">>, <<"connector1">>,
      <<"connector0", "connector1">>, <<"connector1", "connector0">>,
      <<"connector0", "connector0">>,
      <<"connector0", "connector1", "connector2">> }

WireInstances ==
    {Wire(i, <<View("schematicTrace", g,
                    [k \in DOMAIN ids |->
                        Connector(ids[k], IF k = 1 THEN <<RefA>> ELSE <<>>)])>>) :
        i \in Indices, g \in {Geom0, GeomNone, GeomBadX, GeomBadX2},
        ids \in WireConnectorIds}
    \cup
    {Wire(i, <<>>) : i \in Indices}
    \cup
    {Part("R", "1", "a.fzp", <<"R1">>,
          <<View("schematic", Geom0, OneConnector)>>)}

\* The sketches of SpecRot: one part placed with every transform whose
\* coefficients are absent, "0", "1" or "-1", with transforms having one
\* coefficient that is no integer literal, and without a transform.
TransformKeys == {"m11", "m12", "m21", "m22"}

CoefTexts == {<<"0">>, <<"1">>, <<"-", "1">>}

NonIntTexts == {<<"1", ".", "0">>, <<>>}

Identity == [k \in TransformKeys |-> IF k \in {"m11", "m22"} THEN <<"1">> ELSE <<"0">>]

Transforms ==
    UNION {[d -> CoefTexts] : d \in SUBSET TransformKeys}
    \cup {[Identity EXCEPT ![k] = t] : k \in TransformKeys, t \in NonIntTexts}

RotInstances ==
    {Part("R", "1", "a.fzp", <<"R1">>,
          <<View("schematic", [Geom0 EXCEPT !.transform = t], <<>>)>>) :
        t \in {<<>>} \cup {<<xf>> : xf \in Transforms}}
    \cup
    {Wire("2", <<View("schematicTrace", Geom0, OneConnector)>>)}

(***************************************************************************)
(* ComponentParser, one svg element at a time.                             *)
(***************************************************************************)
CPState == [shapes |-> shapes, pins |-> pins,
            next_pin_number |-> next_pin_number]

\* ComponentParser.__init__
CPInit ==
    /\ cp_pc = "new"
    /\ terminals = EmptyDict
    /\ svg_element = <<>>
    /\ cp_count = 0
    /\ shapes = <<>>
    /\ pins = <<>>
    /\ next_pin_number = 0

\* parse up to the element loop of parse_svg, on a part that has a label
\* and whose svg file exists: the body is empty, the terminals are mapped.
CPStart(conns) ==
    /\ cp_pc = "new"
    /\ cp_pc' = "svg"
    /\ terminals' = parse_terminals(conns, EmptyDict)
    /\ UNCHANGED <<svg_element, cp_count, shapes, pins, next_pin_number,
                   sessionVars, geomVars>>

\* One iteration of the element loop of parse_svg.
CPElement(el) ==
    /\ cp_pc = "svg"
    /\ cp_count < MaxElements
    /\ LET r == SvgStep(terminals, CPState, el)
       IN  /\ cp_pc' = IF r.raised THEN "failed" ELSE "svg"
           /\ shapes' = r.st.shapes
           /\ pins' = r.st.pins
           /\ next_pin_number' = r.st.next_pin_number
    /\ svg_element' = <<el>>
    /\ cp_count' = cp_count + 1
    /\ UNCHANGED <<terminals, sessionVars, geomVars>>

\* The end of the element loop: parse returns the component.
CPFinish ==
    /\ cp_pc = "svg"
    /\ cp_pc' = "done"
    /\ UNCHANGED <<terminals, svg_element, cp_count, shapes, pins,
                   next_pin_number, sessionVars, geomVars>>

Plug(t, sid) == << [terminalId |-> t, svgId |-> sid] >>

\* The connector declarations of the parts of SpecCP: none; one found by
\* its svgId; two, the second found by its terminalId; two without a
\* usable plug.
PartConnectors ==
    { <<>>,
      << [id |-> "connector0", plug |-> Plug(None, "pin0")] >>,
      << [id |-> "connector0", plug |-> Plug(None, "pin0")],
         [id |-> "connector1", plug |-> Plug("pin1T", "pin1")] >>,
      << [id |-> "connector0", plug |-> <<>>],
         [id |-> "connector1", plug |-> Plug(None, None)] >> }

\* The svg elements of SpecCP: one of each kind the parser knows and one
\* it does not, with and without an id that may name a terminal, and a
\* rectangle whose width is no number.
SvgAttrs(tag) ==
    CASE tag = "circle" -> ("cx" :> <<"2">>) @@ ("cy" :> <<"3">>) @@ ("r" :> <<"1">>)
      [] tag = "rect" -> ("x" :> <<"1">>) @@ ("y" :> <<"2">>)
                         @@ ("width" :> <<"4">>) @@ ("height" :> <<"3">>)
      [] tag = "line" -> ("x1" :> <<"1">>) @@ ("y1" :> <<"1">>)
                         @@ ("x2" :> <<"5">>) @@ ("y2" :> <<"1">>)
      [] tag = "polygon" ->
            ("points" :> <<"0", ",", "0", " ", "4", ",", "0", " ", "4", ",", "4">>)
      [] tag = "polyline" ->
            ("points" :> <<"0", ",", "0", " ", "4", ",", "0", " ", "4", ",", "4">>)
      [] OTHER -> EmptyDict

SvgElements ==
    {[tag |-> tag, id |-> id, attrs |-> SvgAttrs(tag)] :
        tag \in {"circle", "rect", "line", "polygon", "polyline", "g"},
        id \in {None, "pin0", "pin1T", "pin1"}}
    \cup
    {[tag |-> "rect", id |-> "pin0",
      attrs |-> ("width" :> <<"a">>) @@ SvgAttrs("rect")]}

(***************************************************************************)
(* The conversion functions, one call at a time.                           *)
(***************************************************************************)
NumAlphabet == {"2", "5", "-", ".", "a"}

\* An element with or without the numeric attribute "v".
NumericAttrs ==
    {EmptyDict} \cup {("v" :> t) : t \in SeqUpTo(NumAlphabet, MaxTextLen)}

PointTexts ==
    { <<"2", ",", "5">>, <<"-", "5", ",", "2">>, <<"2", ".", "5", ",", "2">>,
      <<"a", ",", "2">>, <<"2">>, <<"2", ",", "5", ",", "2">>, <<>> }

\* The tokens joined by single blanks (an empty token leaves two blanks).
RECURSIVE JoinBlank(_)
JoinBlank(ts) ==
    IF ts = <<>> THEN <<>>
    ELSE IF Len(ts) = 1 THEN ts[1]
    ELSE ts[1] \o <<" ">> \o JoinBlank(Tail(ts))

\* An element with or without a points attribute.
PointsAttrs ==
    {EmptyDict} \cup {("points" :> JoinBlank(ts)) : ts \in SeqUpTo(PointTexts, MaxPoints)}

GeomIdle ==
    /\ g_fn = "none"
    /\ g_attrs = EmptyDict
    /\ g_out = [raised |-> FALSE]

Call(fn, out) ==
    /\ g_fn = "none"
    /\ g_fn' = fn
    /\ g_out' = out
    /\ UNCHANGED <<g_attrs, sessionVars, cpVars>>

GetX == "points" \notin DOMAIN g_attrs /\ Call("get_x", get_x(g_attrs, "v"))

GetY == "points" \notin DOMAIN g_attrs /\ Call("get_y", get_y(g_attrs, "v"))

GetLength ==
    "points" \notin DOMAIN g_attrs /\ Call("get_length", get_length(g_attrs, "v"))

ParsePolygon ==
    "v" \notin DOMAIN g_attrs /\ Call("parse_polygon", parse_polygon(g_attrs))

ParsePolyline ==
    "v" \notin DOMAIN g_attrs /\ Call("parse_polyline", parse_polyline(g_attrs))

(***************************************************************************)
(* Specifications.                                                         *)
(***************************************************************************)
Init == SessionInit /\ CPInit /\ GeomIdle

Next ==
    \/ \E inst \in Instances : ParseWire(inst)
    \/ \E inst \in Instances : ParseComponentInstance(inst)
    \/ Finish

Spec == Init /\ [][Next]_vars

NextConnects ==
    \/ \E inst \in ConnectInstances : ParseWire(inst)
    \/ \E inst \in ConnectInstances : ParseComponentInstance(inst)
    \/ Finish

SpecConnects == Init /\ [][NextConnects]_vars

NextWire ==
    \/ \E inst \in WireInstances : ParseWire(inst)
    \/ \E inst \in WireInstances : ParseComponentInstance(inst)
    \/ Finish

SpecWire == Init /\ [][NextWire]_vars

NextRot ==
    \/ \E inst \in RotInstances : ParseWire(inst)
    \/ \E inst \in RotInstances : ParseComponentInstance(inst)
    \/ Finish

SpecRot == Init /\ [][NextRot]_vars

NextCP ==
    \/ \E conns \in PartConnectors : CPStart(conns)
    \/ \E el \in SvgElements : CPElement(el)
    \/ CPFinish

SpecCP == Init /\ [][NextCP]_vars

InitGeom ==
    /\ SessionInit
    /\ CPInit
    /\ g_fn = "none"
    /\ g_attrs \in NumericAttrs \cup PointsAttrs
    /\ g_out = [raised |-> FALSE]

NextGeom == GetX \/ GetY \/ GetLength \/ ParsePolygon \/ ParsePolyline

SpecGeom == InitGeom /\ [][NextGeom]_vars

(***************************************************************************)
(* Properties of the parse session (Spec).                                 *)
(***************************************************************************)
IsPart(inst) == inst.moduleIdRef # "WireModuleID"

\* The terminal identifiers of the connection records.
Terminals ==
    UNION {{connects[i][j] : j \in DOMAIN connects[i]} : i \in DOMAIN connects}

\* A net of the design is read as the set of terminal identifiers it joins.
NetsWith(t) == {n \in DOMAIN design.nets : t \in design.nets[n]}

\* C1: once parse has returned, every terminal identifier of a connection
\* record lies in exactly one net of the design, and the nets are pairwise
\* disjoint.
C1_NetPartition ==
    pc = "done" =>
        /\ \A t \in Terminals : Cardinality(NetsWith(t)) = 1
        /\ \A n, m \in DOMAIN design.nets :
              n # m => design.nets[n] \cap design.nets[m] = {}

\* C2: once parse has returned, two connection records that share a
\* terminal (a chain A-B, B-C) have all their terminals in one net of the
\* design, whatever the order of the records.
C2_MergeTransitivity ==
    pc = "done" =>
        \A i, k \in DOMAIN connects :
            (\E a \in DOMAIN connects[i], b \in DOMAIN connects[k] :
                 connects[i][a] = connects[k][b])
            => \E n \in DOMAIN design.nets :
                   /\ \A a \in DOMAIN connects[i] : connects[i][a] \in design.nets[n]
                   /\ \A b \in DOMAIN connects[k] : connects[k][b] \in design.nets[n]

\* C3 as claimed: the step on a part whose path names no file (and for
\* which lookup_part finds no file either) adds no ComponentInstance and
\* leaves the parse running.
C3_SkipOnMissingPath ==
    [][(pos' = pos + 1 /\ IsPart(element'[1])
        /\ element'[1].path # "" /\ element'[1].path \notin ExistingFiles
        /\ lookup_result' \notin ExistingFiles)
       => (component_instances' = component_instances /\ pc' = "parsing")]_vars

\* C3 as amended: the step on a part whose type is not loaded yet, whose
\* path names no file and for which lookup_part finds no file either adds
\* no ComponentInstance, no Component and no connection record, and
\* leaves the parse running, so that the next instance is parsed.
C3_GracefulSkip ==
    [][(pos' = pos + 1 /\ IsPart(element'[1])
        /\ element'[1].moduleIdRef \notin DOMAIN components
        /\ element'[1].path # "" /\ element'[1].path \notin ExistingFiles
        /\ lookup_result' \notin ExistingFiles)
       => (/\ component_instances' = component_instances
           /\ components' = components
           /\ connects' = connects
           /\ pc' = "parsing")]_vars

\* A part that could not be resolved was skipped after another instance
\* had been recorded, and the parse goes on.
C3_Witness ==
    /\ pos = 2 /\ pc = "parsing"
    /\ IsPart(element[1])
    /\ element[1].path = "gone.fzp"
    /\ element[1].views # <<>>
    /\ lookup_result = "lib/none.fzp"
    /\ element[1].moduleIdRef \notin DOMAIN components
    /\ DOMAIN component_instances # {}
    /\ element[1].modelIndex \notin DOMAIN component_instances

\* C4: in every state, the type id of every recorded ComponentInstance is
\* a key of self.components, holding the Component parsed for that type;
\* the same holds of the design handed back.
C4_NoDangling ==
    /\ \A i \in DOMAIN component_instances :
          LET id == component_instances[i].library_id
          IN  /\ id \in DOMAIN components
              /\ components[id].name = id
              /\ "pins" \in DOMAIN components[id]
    /\ \A k \in DOMAIN design.component_instances :
          design.component_instances[k].library_id \in DOMAIN design.components

\* An instance was recorded and the instance parsed last, of another type
\* that cannot be resolved, was not.
C4_Witness ==
    /\ DOMAIN component_instances # {}
    /\ element # <<>> /\ IsPart(element[1])
    /\ element[1].views # <<>>
    /\ element[1].views[1].layer # "breadboardbreadboard"
    /\ element[1].moduleIdRef \notin DOMAIN components
    /\ element[1].modelIndex \notin DOMAIN component_instances
    /\ pc = "parsing"

\* C5 as claimed: no part-description file is parsed twice in a session.
C5_OncePerFile ==
    \A i, j \in DOMAIN parsed : parsed[i].path = parsed[j].path => i = j

\* C5 as amended: ComponentParser runs at most once for each type id, and
\* every cached Component comes from such a run.
C5_OncePerType ==
    /\ \A i, j \in DOMAIN parsed : parsed[i].idref = parsed[j].idref => i = j
    /\ \A id \in DOMAIN components : \E i \in DOMAIN parsed : parsed[i].idref = id

\* Two instances of one type were recorded after a single parse of the part.
C5_Witness ==
    /\ Len(parsed) = 1
    /\ DOMAIN component_instances = Indices
    /\ \A i \in Indices : component_instances[i].library_id = parsed[1].idref

(***************************************************************************)
(* Properties of add_connects (SpecConnects).                              *)
(***************************************************************************)
NotBreadboard(c) == c.layer # "breadboardbreadboard"

HasSchematicConnect(connector) ==
    \E j \in DOMAIN connector.connects : NotBreadboard(connector.connects[j])

\* The record a connector with schematic connects stands for.
RecordOf(index, connector) ==
    LET kept == SelectSeq(connector.connects, NotBreadboard)
    IN  << <<index, connector.connectorId>> >>
        \o [j \in 1..Len(kept) |-> <<kept[j].modelIndex, kept[j].connectorId>>]

RecordsOf(inst) ==
    LET cs == SelectSeq(inst.views[1].connectors, HasSchematicConnect)
    IN  [k \in 1..Len(cs) |-> RecordOf(inst.modelIndex, cs[k])]

\* C9: each step appends to self.connects, for an instance that was not
\* skipped and did not fail, one record for each of its connectors that
\* has a connect outside the breadboard layer, in document order: the
\* instance's own (index, connector id) followed by those connects in
\* document order; it appends nothing else, and every record has at least
\* two entries.
C9_ConnectionRecords ==
    [][pos' = pos + 1 =>
          LET inst == element'[1]
              parsedIt == /\ inst.views # <<>>
                          /\ pc' = "parsing"
                          /\ IsPart(inst) =>
                                /\ inst.views[1].layer # "breadboardbreadboard"
                                /\ inst.moduleIdRef \in DOMAIN components'
          IN  /\ connects' = connects \o (IF parsedIt THEN RecordsOf(inst) ELSE <<>>)
              /\ \A i \in DOMAIN connects' : Len(connects'[i]) >= 2]_vars

\* A wire whose first connector has only a breadboard connect and whose
\* second has a breadboard connect before a schematic one left one record,
\* of the second connector and its schematic connect.
C9_Witness ==
    /\ pos = 1 /\ pc = "parsing"
    /\ element[1] = Wire("2", <<View("schematicTrace", Geom0,
                                     << Connector("connector0", <<RefBB>>),
                                        Connector("connector1", <<RefBB, RefB>>) >>)>>)
    /\ connects = << << <<"2", "connector1">>, <<"1", "connector1">> >> >>

(***************************************************************************)
(* Properties of parse_wire (SpecWire).                                    *)
(***************************************************************************)
IsWire(inst) == inst.moduleIdRef = "WireModuleID"

\* C10: the step on a wire with a schematic view leaves exactly two
\* NetPoints in self.points[index], keyed by connector id, the first
\* connector of the view read from x and y and the second from x2 and y2;
\* the step on a wire without a schematic view adds no entry to
\* self.points and no connection record.
C10_TwoNetPoints ==
    [][(pos' = pos + 1 /\ IsWire(element'[1])) =>
          LET inst == element'[1]
              index == inst.modelIndex
              view == inst.views[1]
          IN  IF inst.views = <<>>
              THEN points' = points /\ connects' = connects
              ELSE /\ index \in DOMAIN points'
                   /\ Cardinality(DOMAIN points'[index]) = 2
                   /\ Len(view.connectors) = 2
                   /\ LET p1 == points'[index][view.connectors[1].connectorId]
                          p2 == points'[index][view.connectors[2].connectorId]
                      IN  /\ p1.x = get_x(view.geometry.attrs, "x").value
                          /\ p1.y = get_y(view.geometry.attrs, "y").value
                          /\ p2.x = get_x(view.geometry.attrs, "x2").value
                          /\ p2.y = get_y(view.geometry.attrs, "y2").value]_vars

\* C10, the case of a wire with two ends: the step on a wire whose view
\* lists two connectors with different ids and whose coordinates are
\* numbers leaves the two NetPoints of the claim.
C10_TwoEnds ==
    [][(pos' = pos + 1 /\ IsWire(element'[1]) /\ element'[1].views # <<>>
        /\ pc' = "parsing"
        /\ Len(element'[1].views[1].connectors) = 2
        /\ element'[1].views[1].connectors[1].connectorId
              # element'[1].views[1].connectors[2].connectorId)
       => LET inst == element'[1]
              view == inst.views[1]
              c1 == view.connectors[1].connectorId
              c2 == view.connectors[2].connectorId
          IN  points'[inst.modelIndex]
                = (c1 :> NetPoint(inst.modelIndex, c1,
                                  get_x(view.geometry.attrs, "x").value,
                                  get_y(view.geometry.attrs, "y").value))
                  @@ (c2 :> NetPoint(inst.modelIndex, c2,
                                     get_x(view.geometry.attrs, "x2").value,
                                     get_y(view.geometry.attrs, "y2").value))]_vars

\* C10, the failing case: a wire whose view lists only its second end was
\* parsed, and self.points holds one NetPoint for it, read from x and y.
C10_OneEnd ==
    /\ pc = "parsing" /\ element # <<>>
    /\ IsWire(element[1]) /\ element[1].views # <<>>
    /\ Len(element[1].views[1].connectors) = 1
    /\ element[1].views[1].connectors[1].connectorId = "connector1"
    /\ element[1].views[1].geometry = Geom0
    /\ points[element[1].modelIndex]
          = ("connector1" :> [point_id |-> element[1].modelIndex \o ".connector1",
                              x |-> 2, y |-> -5])

(***************************************************************************)
(* Properties of the rotation decoding (SpecRot).                          *)
(***************************************************************************)
\* The integer a coefficient text of CoefTexts denotes.
CoefNumber(text) ==
    CASE text = <<"0">> -> 0 [] text = <<"1">> -> 1 [] text = <<"-", "1">> -> -1

\* The coefficients of a transform are integers, or absent.
AllIntegers(xform) == \A k \in DOMAIN xform : xform[k] \in CoefTexts

\* (m11, m12, m21, m22), an absent coefficient being 0.
Coefficients(xform) ==
    [i \in 1..4 |->
        LET key == <<"m11", "m12", "m21", "m22">>[i]
        IN  IF key \in DOMAIN xform THEN CoefNumber(xform[key]) ELSE 0]

RotationTable ==
    (<<1, 0, 0, 1>> :> Frac(0, 1)) @@ (<<0, 1, -1, 0>> :> Frac(1, 2))
    @@ (<<-1, 0, 0, -1>> :> Frac(1, 1)) @@ (<<0, -1, 1, 0>> :> Frac(3, 2))

TableRotation(m) == IF m \in DOMAIN RotationTable THEN RotationTable[m] ELSE Frac(0, 1)

\* The rotation recorded for the instance parsed last.
RecordedRotation ==
    component_instances[element[1].modelIndex].symbol_attributes[1].rotation

Numerals == <<"0", "1", "2", "3", "4", "5", "6", "7", "8", "9", "10", "11">>

\* C6: each step of the element loop leaves the pins numbered "0", "1",
\* "2", ... in the order they were added, the counter equal to their
\* number; it keeps the pins there were and adds one, at the end, exactly
\* when the element is a rect or a circle whose id is a terminal (and its
\* fields are numbers), with the centre of the element's shape as its
\* position.
C6_PinNumbering ==
    [][cp_count' = cp_count + 1 =>
          LET el == svg_element'[1]
              pinned == /\ cp_pc' # "failed"
                        /\ el.tag \in {"rect", "circle"}
                        /\ el.id \in DOMAIN terminals
          IN  /\ \A k \in DOMAIN pins' : pins'[k].pin_number = Numerals[k]
              /\ next_pin_number' = Len(pins')
              /\ SubSeq(pins', 1, Len(pins)) = pins
              /\ Len(pins') = Len(pins) + (IF pinned THEN 1 ELSE 0)
              /\ next_pin_number' = next_pin_number + (IF pinned THEN 1 ELSE 0)
              /\ pinned =>
                    LET shape == shapes'[Len(shapes')]
                        pin == pins'[Len(pins')]
                    IN  pin.p1 = IF el.tag = "circle" THEN <<shape.x, shape.y>>
                                 ELSE <<shape.x + (shape.width \div 2),
                                        shape.y + (shape.height \div 2)>>]_vars

\* Two pins were made, numbered "0" and "1", with a line between them
\* that got no number.
C6_Witness ==
    /\ cp_pc = "svg"
    /\ Len(pins) = 2 /\ Len(shapes) = 3
    /\ shapes[2].type = "line"
    /\ pins[1].pin_number = "0" /\ pins[2].pin_number = "1"
    /\ pins[2].p1 = <<3, -4>>

(***************************************************************************)
(* Properties of the conversions (SpecGeom).                               *)
(***************************************************************************)
AllDigits(t) == \A i \in DOMAIN t : t[i] \in Digits

\* The text is a decimal literal: an optional sign, then digits, or digits
\* around one point with a digit on at least one side.
IsDecimal(text) ==
    LET b == IF text # <<>> /\ text[1] \in {"-", "+"} THEN Tail(text) ELSE text
    IN  \/ b # <<>> /\ AllDigits(b)
        \/ \E d \in DOMAIN b :
              /\ b[d] = "."
              /\ Len(b) >= 2
              /\ AllDigits(SubSeq(b, 1, d - 1))
              /\ AllDigits(SubSeq(b, d + 1, Len(b)))

\* The token is two decimal literals around one comma.
IsPointToken(tok) ==
    \E c \in DOMAIN tok :
        /\ tok[c] = ","
        /\ IsDecimal(SubSeq(tok, 1, c - 1))
        /\ IsDecimal(SubSeq(tok, c + 1, Len(tok)))

NumericCall == g_fn \in {"get_x", "get_y", "get_length"}

PointsCall == g_fn \in {"parse_polygon", "parse_polyline"}

====
